---- MODULE Spec2Model ----
(***************************************************************************)
(* A model of muonfp: the size-bounded rotating output stream              *)
(* (src/src/rotating_writer.rs), the TCP options decoder                   *)
(* (src/src/fingerprint.rs, inlined in src/src/main.rs) and the capture    *)
(* loop of src/src/main.rs, and the fingerprint composer with the block    *)
(* action (src/src/ipblocker.rs).  Four specifications share the module:   *)
(*   SpecWriter       one RotatingFileWriter driven by arbitrary calls,    *)
(*   SpecDecode       the options decoder applied to bounded payloads,     *)
(*   SpecLoop         the capture loop of main applied to bounded frames,  *)
(*   SpecFingerprint  fingerprints composed from bounded handshakes, and   *)
(*                    the block action called on their remote address.     *)
(***************************************************************************)
EXTENDS Integers, Sequences, FiniteSets, TLC

VARIABLES
    \* ---- RotatingFileWriter (rotating_writer.rs:6-15) and its environment
    max_size,       \* max_size: u64
    init_len,       \* bytes the init_new_file action writes (0: no-op action)
    current_file,   \* Option<BufWriter<File>>: None or the path the handle is open on
    current_size,   \* current_size: u64
    file_count,     \* file_count: u32
    current_path,   \* Option<PathBuf>
    disk,           \* the stream's files on disk: path -> content
    now,            \* SystemTime::now() in whole seconds
    created,        \* history: stems <<ts, seq>> of the files created, in order
    nwrites,        \* history: write_packet calls so far; call k writes record k
    op,             \* history: the last call and what it did
    faults,         \* I/O failures injected so far
    \* ---- the options decoder applied to one TCP payload
    tcp_payload,    \* the input: [len, doff, opts]
    decoded,        \* NotRun, or what extract_tcp_options returned / how it ended
    \* ---- the capture loop of main (main.rs:35-191) and its environment
    local_ips,      \* local_ips: HashSet<IpAddr>
    orch,           \* "Running", or "Panicked" once an expect/index has panicked
    cancel,         \* the environment's stop request: "none", "requested", or
                    \* "passed" once an iteration has ended after the request
    rx,             \* what the blocked rx.next() will return: a frame or an error
    pulled,         \* history: rx.next() calls that have returned
    pcap_file,      \* packets.pcap after its global header: per record the
                    \* pull it stems from, its 16 header bytes and the number
                    \* of frame bytes that follow them
    signatures_file,\* muonfp.out: the number of lines written and flushed
    last,           \* history: what the last iteration did
    \* ---- the fingerprint composer and the block action
    prev,           \* the fingerprint composed before `cur`, or NoFingerprint
    cur,            \* the fingerprint composed last, or NoFingerprint
    block           \* the last block_ip call: its argument, how nft ended, what
                    \* was logged and whether the call returned

wvars == <<max_size, init_len, current_file, current_size, file_count,
           current_path, disk, now, created, nwrites, op, faults>>

dvars == <<tcp_payload, decoded>>

lvars == <<local_ips, orch, cancel, rx, pulled, pcap_file, signatures_file, last>>

fvars == <<prev, cur, block>>

vars == <<wvars, dvars, lvars, fvars>>

-----------------------------------------------------------------------------
(* Bounds of the model. *)
MaxWrites == 3      \* write_packet calls in one run
MaxClock == 1       \* the clock ticks at most this many seconds
MaxFaults == 1      \* I/O failures injected in one run
MaxOptLen == 4      \* bytes of a TCP payload past its 20-byte fixed header
MaxFrames == 2      \* rx.next() returns at most this often in one run

(* Inputs: the configured maxima, the init actions (the no-op one and the  *)
(* 24-byte global header of network_tap.rs:39-48) and the record lengths.  *)
MaxSizes == {100}
InitLens == {0, 24}
Lens == {40, 60, 101}

(* Option::None; a path is <<seconds, sequence number, extension>>. *)
None == <<>>

-----------------------------------------------------------------------------
(* Paths.  A segment's name embeds the Unix seconds at its opening and the  *)
(* sequence counter; it carries the in-progress suffix until renamed.       *)
NewPath(ts, seq) == <<ts, seq, "part">>

WithExtension(p) == <<p[1], p[2], "final">>

Stem(p) == <<p[1], p[2]>>

Ext(p) == p[3]

(* An empty file as OpenOptions::create makes it. *)
EmptyFile == [inits |-> 0, recs |-> <<>>, synced |-> TRUE]

(* std::fs::rename: the source name disappears, the target is replaced. *)
Rename(d, from, to) ==
    [n \in (DOMAIN d \ {from}) \cup {to} |-> IF n = to THEN d[from] ELSE d[n]]

RECURSIVE SumLens(_)
SumLens(s) == IF s = <<>> THEN 0 ELSE s[1].len + SumLens(Tail(s))

(* The bytes of a file: one init-action output per run of the action (it    *)
(* always writes at offset 0 of a fresh handle) plus the appended records.  *)
FileBytes(f) == (IF f.inits > 0 THEN init_len ELSE 0) + SumLens(f.recs)

-----------------------------------------------------------------------------
(* The result of a step of the writer: the fields it leaves and the I/O    *)
(* failure that ended it ("" when none did).                                *)
WState(err, cf, cp, cs, fc, d, cr) ==
    [err |-> err, current_file |-> cf, current_path |-> cp, current_size |-> cs,
     file_count |-> fc, disk |-> d, created |-> cr]

(* BufWriter::flush can fail only when the buffer holds unwritten bytes. *)
Dirty(d, p) == p # None /\ p \in DOMAIN d /\ ~d[p].synced

(* rotate (rotating_writer.rs:36-69), with `fault` the step whose I/O      *)
(* fails: "flush" (38), "rename" (43), "open" (60), "init" (62),           *)
(* "flush_new" (63), or "none".  Every `?` returns with the fields as they *)
(* are at that line: take() has already emptied the Option.                *)
Rotate(fault) ==
    IF fault = "flush" /\ current_file # None /\ Dirty(disk, current_file)
    THEN WState("flush", None, current_path, current_size, file_count, disk, created)
    ELSE
    LET d1 == IF current_file # None /\ current_file \in DOMAIN disk
              THEN [disk EXCEPT ![current_file].synced = TRUE] ELSE disk
        doRename == current_path # None /\ current_path \in DOMAIN d1
    IN
    IF fault = "rename" /\ doRename
    THEN WState("rename", None, None, current_size, file_count, d1, created)
    ELSE
    LET d2 == IF doRename THEN Rename(d1, current_path, WithExtension(current_path))
              ELSE d1
        np == NewPath(now, file_count)
    IN
    IF fault = "open"
    THEN WState("open", None, None, current_size, file_count, d2, created)
    ELSE
    LET isNew == np \notin DOMAIN d2
        d3 == [n \in DOMAIN d2 \cup {np} |->
                  IF n = np /\ isNew THEN EmptyFile ELSE d2[n]]
        cr == IF isNew THEN Append(created, Stem(np)) ELSE created
    IN
    IF fault = "init" /\ init_len > 0
    THEN WState("init", None, None, current_size, file_count,
                [d3 EXCEPT ![np].synced = FALSE], cr)
    ELSE
    IF fault = "flush_new" /\ init_len > 0
    THEN WState("flush_new", None, None, current_size, file_count,
                [d3 EXCEPT ![np].inits = @ + 1, ![np].synced = FALSE], cr)
    ELSE WState("", np, np, 0, file_count + 1,
                [d3 EXCEPT ![np].inits = @ + 1, ![np].synced = TRUE], cr)

RotateFaults == {"flush", "rename", "open", "init", "flush_new"}

(* write_packet with the rotation check made with >= instead of >. *)
WritePacketResult_RotatesAtMax(len, id, fault) ==
    LET rotates == current_size + len >= max_size
        r == IF rotates THEN Rotate(fault)
             ELSE WState("", current_file, current_path, current_size,
                         file_count, disk, created)
    IN
    IF r.err # "" THEN r
    ELSE IF r.current_file = None THEN [r EXCEPT !.err = "nofile"]
    ELSE IF fault = "write" /\ len > 0
    THEN [r EXCEPT !.err = "write", !.disk[r.current_file].synced = FALSE]
    ELSE [r EXCEPT !.current_size = @ + len,
                   !.disk[r.current_file].recs = Append(@, [id |-> id, len |-> len]),
                   !.disk[r.current_file].synced = (@ /\ len = 0)]

(* write_packet (rotating_writer.rs:71-83).  `id` names the record. *)
WritePacketResult(len, id, fault) ==
    LET rotates == current_size + len > max_size
        r == IF rotates THEN Rotate(fault)
             ELSE WState("", current_file, current_path, current_size,
                         file_count, disk, created)
    IN
    IF r.err # "" THEN r
    ELSE IF r.current_file = None THEN [r EXCEPT !.err = "nofile"]
    ELSE IF fault = "write" /\ len > 0
    THEN [r EXCEPT !.err = "write", !.disk[r.current_file].synced = FALSE]
    ELSE [r EXCEPT !.current_size = @ + len,
                   !.disk[r.current_file].recs = Append(@, [id |-> id, len |-> len]),
                   !.disk[r.current_file].synced = (@ /\ len = 0)]

(* flush_and_close (rotating_writer.rs:85-96). *)
FlushAndCloseResult(fault) ==
    IF fault = "flush" /\ current_file # None /\ Dirty(disk, current_file)
    THEN WState("flush", None, current_path, current_size, file_count, disk, created)
    ELSE
    LET d1 == IF current_file # None /\ current_file \in DOMAIN disk
              THEN [disk EXCEPT ![current_file].synced = TRUE] ELSE disk
        doRename == current_path # None /\ current_path \in DOMAIN d1
    IN
    IF fault = "rename" /\ doRename
    THEN WState("rename", None, None, current_size, file_count, d1, created)
    ELSE WState("", None, None, current_size, file_count,
                IF doRename THEN Rename(d1, current_path, WithExtension(current_path))
                ELSE d1,
                created)

(* flush that also closes and finalizes the segment. *)
FlushResult_Closes(fault) == FlushAndCloseResult(fault)

(* Write::flush (rotating_writer.rs:105-111). *)
FlushResult(fault) ==
    IF current_file = None
    THEN WState("", current_file, current_path, current_size, file_count, disk, created)
    ELSE IF fault = "flush" /\ Dirty(disk, current_file)
    THEN WState("flush", current_file, current_path, current_size, file_count, disk, created)
    ELSE WState("", current_file, current_path, current_size, file_count,
                [disk EXCEPT ![current_file].synced = TRUE], created)

(* A call's fault is injected only where the call reaches that step. *)
FaultOk(fault, r) ==
    \/ fault = "none"
    \/ fault # "none" /\ r.err = fault /\ faults < MaxFaults

Install(r) ==
    /\ current_file' = r.current_file
    /\ current_path' = r.current_path
    /\ current_size' = r.current_size
    /\ file_count' = r.file_count
    /\ disk' = r.disk
    /\ created' = r.created
    /\ faults' = IF r.err \in {"", "nofile"} THEN faults ELSE faults + 1

Res(r) == IF r.err = "" THEN "ok" ELSE r.err

(* The last call: its name, its result and the record length it was given. *)
NoOp == [name |-> "new", res |-> "ok", len |-> 0]

OpRec(name, r, len) == [name |-> name, res |-> Res(r), len |-> len]

-----------------------------------------------------------------------------
(* The state RotatingFileWriter::new returns (rotating_writer.rs:18-34): the *)
(* first rotate has succeeded, so segment 0 is open with the init action run.*)
InitWriter ==
    /\ max_size \in MaxSizes
    /\ init_len \in InitLens
    /\ now = 0
    /\ current_file = NewPath(0, 0)
    /\ current_path = NewPath(0, 0)
    /\ current_size = 0
    /\ file_count = 1
    /\ disk = (NewPath(0, 0) :> [EmptyFile EXCEPT !.inits = 1])
    /\ created = << <<0, 0>> >>
    /\ nwrites = 0
    /\ op = NoOp
    /\ faults = 0

WritePacket ==
    /\ nwrites < MaxWrites
    /\ \E len \in Lens, fault \in RotateFaults \cup {"write", "none"} :
          LET id == nwrites + 1
              r == WritePacketResult(len, id, fault)
          IN /\ FaultOk(fault, r)
             /\ Install(r)
             /\ nwrites' = nwrites + 1
             /\ op' = OpRec("write_packet", r, len)
    /\ UNCHANGED <<max_size, init_len, now, dvars, lvars, fvars>>

Flush ==
    /\ \E fault \in {"flush", "none"} :
          LET r == FlushResult(fault)
          IN /\ FaultOk(fault, r)
             /\ Install(r)
             /\ op' = OpRec("flush", r, 0)
    /\ UNCHANGED <<max_size, init_len, now, nwrites, dvars, lvars, fvars>>

FlushAndClose ==
    /\ \E fault \in {"flush", "rename", "none"} :
          LET r == FlushAndCloseResult(fault)
          IN /\ FaultOk(fault, r)
             /\ Install(r)
             /\ op' = OpRec("flush_and_close", r, 0)
    /\ UNCHANGED <<max_size, init_len, now, nwrites, dvars, lvars, fvars>>

(* A second passes between two calls. *)
Tick ==
    /\ now < MaxClock
    /\ now' = now + 1
    /\ UNCHANGED <<max_size, init_len, current_file, current_size, file_count,
                   current_path, disk, created, nwrites, op, faults, dvars, lvars, fvars>>

NextWriter == WritePacket \/ Flush \/ FlushAndClose \/ Tick

-----------------------------------------------------------------------------
(* Observations on the writer's files. *)
PartFiles == {p \in DOMAIN disk : Ext(p) = "part"}

FinalFiles == {p \in DOMAIN disk : Ext(p) = "final"}

(* The place of a file among the files the stream created. *)
CreatedIdx(p) == CHOOSE i \in 1..Len(created) : created[i] = Stem(p)

(* How often record `id` occurs in the stream's files. *)
OccurrencesIn(d, id) ==
    Cardinality({<<p, i>> \in (DOMAIN d) \X (1..(MaxWrites + 1)) :
                    i \in DOMAIN d[p].recs /\ d[p].recs[i].id = id})

Occurrences(id) == OccurrencesIn(disk, id)

IsPrefix(s, t) == Len(s) <= Len(t) /\ \A i \in 1..Len(s) : s[i] = t[i]

(* C1: no finalized segment's byte size (init-action bytes plus appended   *)
(* records) exceeds max_size.                                              *)
C1_FinalizedWithinMax ==
    \A p \in FinalFiles : FileBytes(disk[p]) <= max_size

(* C7: the sequence numbers of the segments the writer creates are         *)
(* 0, 1, 2, ... in creation order: increasing by exactly 1, never reused.  *)
C7_SequenceNumbersByOne ==
    \A i \in 1..Len(created) : created[i][2] = i - 1

(* The three 40-byte records of the spec's scenario C, all written, with a *)
(* 100-byte threshold, a no-op init action and no I/O failure.             *)
ScenarioC ==
    /\ max_size = 100 /\ init_len = 0 /\ faults = 0 /\ nwrites = 3
    /\ \A id \in 1..3 : Occurrences(id) = 1
    /\ \A p \in DOMAIN disk : \A i \in DOMAIN disk[p].recs : disk[p].recs[i].len = 40

(* What a write_packet call that returned Ok has done, read off the state  *)
(* before and after it.                                                    *)
WriteOkStep ==
    LET rec == [id |-> nwrites', len |-> op'.len]
        rotated == file_count' # file_count
    IN /\ rotated <=> (current_size + op'.len > max_size)
       /\ rotated => file_count' = file_count + 1
       /\ current_file' # None /\ current_file' \in DOMAIN disk'
       /\ disk'[current_file'].recs =
             Append(IF rotated THEN <<>> ELSE disk[current_file].recs, rec)
       /\ current_size' = (IF rotated THEN 0 ELSE current_size) + op'.len
       /\ OccurrencesIn(disk', nwrites') = 1

(* C8: write_packet rotates before writing iff current_size + len >        *)
(* max_size and then appends the whole record to the current segment; a    *)
(* failed call adds no record; records are never moved or dropped, every   *)
(* record lies in one segment only, and the segments in creation order     *)
(* hold the records in append order; scenario C ends, after                *)
(* flush_and_close, with exactly two finalized segments of 80 and 40 bytes.*)
C8_PreCheckRotation ==
    /\ [][ /\ (nwrites' # nwrites /\ op'.res = "ok") => WriteOkStep
           /\ (nwrites' # nwrites /\ op'.res # "ok") => OccurrencesIn(disk', nwrites') = 0
           /\ \A p \in DOMAIN disk :
                 \E q \in DOMAIN disk' :
                    Stem(q) = Stem(p) /\ IsPrefix(disk[p].recs, disk'[q].recs)
         ]_wvars
    /\ [](\A id \in 1..MaxWrites + 1 : Occurrences(id) <= 1)
    /\ [](\A p, q \in DOMAIN disk :
            \A i \in DOMAIN disk[p].recs, j \in DOMAIN disk[q].recs :
               (CreatedIdx(p) < CreatedIdx(q) \/ (p = q /\ i < j))
                  => disk[p].recs[i].id < disk[q].recs[j].id)
    /\ []((ScenarioC /\ op.name = "flush_and_close" /\ op.res = "ok") =>
            /\ PartFiles = {}
            /\ Cardinality(FinalFiles) = 2
            /\ \E p, q \in FinalFiles :
                  /\ p # q /\ CreatedIdx(p) < CreatedIdx(q)
                  /\ FileBytes(disk[p]) = 80 /\ Len(disk[p].recs) = 2
                  /\ FileBytes(disk[q]) = 40 /\ Len(disk[q].recs) = 1)

(* C8's case: scenario C has run to its close. *)
C8_Witness ==
    /\ ScenarioC /\ op.name = "flush_and_close" /\ op.res = "ok"
    /\ \E p \in FinalFiles : FileBytes(disk[p]) = 80

(* A further flush_and_close, were it called now, returns Ok whatever the  *)
(* I/O does, renames nothing and leaves the files and the writer as they   *)
(* are.                                                                    *)
CloseAgainIsNoOp ==
    /\ \A f \in {"flush", "rename"} : FlushAndCloseResult(f).err = ""
    /\ LET r == FlushAndCloseResult("none")
       IN /\ r.err = ""
          /\ r.disk = disk
          /\ r.current_file = current_file /\ r.current_path = current_path
          /\ r.current_size = current_size /\ r.file_count = file_count

(* C9: in the state a flush_and_close call leaves, a second call returns   *)
(* Ok, performs no rename and leaves the files on disk and the writer's    *)
(* state exactly as the first call left them.                              *)
C9_SecondCloseNoOp ==
    op.name = "flush_and_close" => CloseAgainIsNoOp

(* C10: at most one segment is open and it is the only one under the       *)
(* in-progress name; a finalized segment has been flushed and its handle   *)
(* released; after a flush_and_close that returned Ok no segment of the    *)
(* stream is left under the in-progress name.                              *)
C10_SegmentFinalization ==
    /\ Cardinality(PartFiles) <= 1
    /\ current_file # None => PartFiles = {current_file}
    /\ \A p \in FinalFiles : disk[p].synced /\ current_file # p
    /\ (op.name = "flush_and_close" /\ op.res = "ok") => PartFiles = {}

(* C16: every segment the writer has created has had the init action run  *)
(* on it exactly once, and before any record was appended, so a segment    *)
(* starts with the init action's output; current_size counts from 0 at     *)
(* the opening of the current segment.                                     *)
C16_InitOncePerSegment ==
    /\ \A p \in DOMAIN disk : disk[p].inits = 1
    /\ current_file # None =>
          current_size = SumLens(disk[current_file].recs)

(* C19: flush never rotates, closes or renames: it leaves current_size,    *)
(* the sequence counter, the current path, the open handle, the names of   *)
(* the files and their contents as they are, and it returns Ok without     *)
(* effect when no segment is open.                                         *)
C19_FlushKeepsRotationState ==
    [][ op'.name = "flush"
        => /\ current_size' = current_size
           /\ file_count' = file_count
           /\ current_path' = current_path
           /\ current_file' = current_file
           /\ created' = created
           /\ DOMAIN disk' = DOMAIN disk
           /\ \A p \in DOMAIN disk :
                 disk'[p].recs = disk[p].recs /\ disk'[p].inits = disk[p].inits
           /\ current_file = None => (op'.res = "ok" /\ disk' = disk)
      ]_vars

(* C19's case: flush was called on a writer that flush_and_close had       *)
(* closed, with a finalized segment on disk.                               *)
C19_Witness ==
    /\ op.name = "flush" /\ op.res = "ok" /\ current_file = None
    /\ FinalFiles # {} /\ nwrites > 0

(* C21: a write_packet call made after flush_and_close has returned, with  *)
(* no other call in between, returns the "No file currently open" error,    *)
(* writes no bytes, creates no segment and leaves current_size and the     *)
(* sequence counter unchanged, whatever the record length.                 *)
C21_NoWriteAfterClose ==
    [][ (op.name = "flush_and_close" /\ op.res = "ok" /\ nwrites' # nwrites)
        => /\ op'.res = "nofile"
           /\ disk' = disk
           /\ created' = created
           /\ current_size' = current_size
           /\ file_count' = file_count
           /\ current_file' = None
      ]_vars

-----------------------------------------------------------------------------
(* Strings are sequences of characters. *)
DigitChars == <<"0", "1", "2", "3", "4", "5", "6", "7", "8", "9">>

(* Integer::to_string for an unsigned value: decimal, no leading zeros. *)
RECURSIVE ToDecimal(_)
ToDecimal(n) ==
    IF n < 10 THEN <<DigitChars[n + 1]>>
    ELSE ToDecimal(n \div 10) \o <<DigitChars[(n % 10) + 1]>>

(* str::trim_end_matches('-'): every trailing '-' goes. *)
RECURSIVE TrimEndDashes(_)
TrimEndDashes(str) ==
    IF str # <<>> /\ str[Len(str)] = "-"
    THEN TrimEndDashes(SubSeq(str, 1, Len(str) - 1))
    ELSE str

(* u16::from_be_bytes *)
U16FromBeBytes(hi, lo) == hi * 256 + lo

(* The byte values the model draws option bytes from: the kinds 0..3, an   *)
(* unknown kind (4) and 255, which also serve as declared lengths.         *)
Bytes == {0, 1, 2, 3, 4, 255}

OptionBytes == UNION {[1..n -> Bytes] : n \in 0..MaxOptLen}

(* A TCP payload of `len` bytes: the high nibble of byte 12 and the bytes  *)
(* from offset 20 on (none when len <= 20).  ScenarioA is the handshake of *)
(* the spec's scenario A: MSS 1460, NOP, window scale 7, NOP, NOP and a   *)
(* 10-byte timestamps option.                                              *)
ScenarioA ==
    [len |-> 40, doff |-> 10,
     opts |-> <<2, 4, 5, 180, 1, 3, 3, 7, 1, 1, 8, 10, 0, 0, 0, 1, 0, 0, 0, 2>>]

Payloads ==
    {[len |-> 20 + Len(o), doff |-> d, opts |-> o] : o \in OptionBytes, d \in 0..15}
    \cup {ScenarioA}

(* The decoder's walk state: position i, the string built so far, the two  *)
(* fields, the indexes of options_slice read, the iterations done, and     *)
(* whether an index was out of bounds (Rust panics there).                 *)
WalkStart ==
    [i |-> 0, options_str |-> <<>>, mss |-> <<>>, window_scale |-> <<>>,
     reads |-> {}, iters |-> 0, tokens |-> 0, panic |-> FALSE]

(* options_slice[k] for each k of ks: recorded, and a panic when k is past *)
(* the end of the slice.                                                   *)
Index(st, slice, ks) ==
    [st EXCEPT !.reads = @ \cup ks,
               !.panic = @ \/ \E k \in ks : k >= Len(slice)]

(* At(slice, k) is options_slice[k] (0-based); 0 stands for a byte the     *)
(* panicking read never delivers.                                          *)
At(slice, k) == IF k < Len(slice) THEN slice[k + 1] ELSE 0

PushToken(st, kind) ==
    [st EXCEPT !.options_str = @ \o ToDecimal(kind) \o <<"-">>,
               !.tokens = @ + 1]

(* The MSS guard with > for >=. *)
MssFits_Strict(slice, i) == Len(slice) > i + 4

(* The guards of the two fixed-size options (fingerprint.rs:57 and :64,    *)
(* main.rs:137 and :144).                                                  *)
MssFits(slice, i) == Len(slice) >= i + 4

(* The window-scale option read without its guard. *)
WindowScaleFits_Unchecked(slice, i) == TRUE

WindowScaleFits(slice, i) == Len(slice) >= i + 3

(* The guard of the length byte (fingerprint.rs:72, main.rs:152). *)
LengthByteFits(slice, i) == Len(slice) > i + 1

(* A declared length taken as it comes. *)
LengthAdvances_Any(length) == TRUE

(* `if length < 2 { break; }` (fingerprint.rs:74, main.rs:154): the walk    *)
(* advances only by a declared length of at least 2.                       *)
LengthAdvances(length) == ~(length < 2)

(* One iteration of the loop body (fingerprint.rs:46-80, main.rs:126-160): *)
(* the state after it and whether the loop goes on.                        *)
WalkStep(slice, st0) ==
    LET i == st0.i
        st == [Index(st0, slice, {i}) EXCEPT !.iters = @ + 1]
        kind == At(slice, i)
    IN
    IF kind = 0 THEN [st |-> PushToken(st, 0), go |-> FALSE]
    ELSE IF kind = 1 THEN [st |-> [PushToken(st, 1) EXCEPT !.i = i + 1], go |-> TRUE]
    ELSE IF kind = 2 THEN
        LET s1 == IF MssFits(slice, i)
                  THEN [Index(st, slice, {i + 2, i + 3}) EXCEPT
                           !.mss = ToDecimal(U16FromBeBytes(At(slice, i + 2),
                                                           At(slice, i + 3)))]
                  ELSE st
        IN [st |-> [PushToken(s1, 2) EXCEPT !.i = i + 4], go |-> TRUE]
    ELSE IF kind = 3 THEN
        LET s1 == IF WindowScaleFits(slice, i)
                  THEN [Index(st, slice, {i + 2}) EXCEPT
                           !.window_scale = ToDecimal(At(slice, i + 2))]
                  ELSE st
        IN [st |-> [PushToken(s1, 3) EXCEPT !.i = i + 3], go |-> TRUE]
    ELSE
        LET s1 == PushToken(st, kind)
        IN IF LengthByteFits(slice, i)
           THEN LET s2 == Index(s1, slice, {i + 1})
                    length == At(slice, i + 1)
                IN IF ~LengthAdvances(length) THEN [st |-> s2, go |-> FALSE]
                   ELSE [st |-> [s2 EXCEPT !.i = i + length], go |-> TRUE]
           ELSE [st |-> s1, go |-> FALSE]

(* while i < options_slice.len() { ... } (fingerprint.rs:45, main.rs:125). *)
(* The model follows a walk for at most Len(slice) + 1 iterations: one     *)
(* more than a walk that advances at every iteration can make.             *)
RECURSIVE Walk(_, _)
Walk(slice, st) ==
    IF st.panic \/ ~(st.i < Len(slice)) \/ st.iters > Len(slice) THEN st
    ELSE LET n == WalkStep(slice, st)
         IN IF n.go THEN Walk(slice, n.st) ELSE n.st

(* tcp_header_length (fingerprint.rs:41, main.rs:121) *)
TcpHeaderLength(pl) == pl.doff * 4

(* &tcp_payload[20..tcp_header_length] (fingerprint.rs:42, main.rs:122): a *)
(* range whose end is below its start or past the payload panics.          *)
SliceInRange(pl) == 20 <= TcpHeaderLength(pl) /\ TcpHeaderLength(pl) <= pl.len

OptionsSlice(pl) == SubSeq(pl.opts, 1, TcpHeaderLength(pl) - 20)

(* extract_tcp_options (fingerprint.rs:36-84; main.rs:116-164 inlines it). *)
ExtractTcpOptions(pl) ==
    IF ~SliceInRange(pl) THEN [WalkStart EXCEPT !.panic = TRUE]
    ELSE LET st == Walk(OptionsSlice(pl), WalkStart)
         IN [st EXCEPT !.options_str = TrimEndDashes(@)]

NotRun == [WalkStart EXCEPT !.iters = -1]

InitDecode ==
    /\ tcp_payload \in Payloads
    /\ decoded = NotRun

Decode ==
    /\ decoded = NotRun
    /\ decoded' = ExtractTcpOptions(tcp_payload)
    /\ UNCHANGED <<tcp_payload, wvars, lvars, fvars>>

-----------------------------------------------------------------------------
(* The capture loop.  IPv4 addresses are their four octets. *)
Local1 == <<10, 0, 0, 1>>
Remote1 == <<8, 8, 8, 8>>
Addrs == {Local1, Remote1, <<224, 0, 0, 1>>, <<255, 255, 255, 255>>, <<0, 0, 0, 0>>}

LocalIpSets == {{}, {Local1}, {Local1, Remote1}}

(* Ipv4Addr::is_broadcast, is_multicast, is_unspecified *)
IsBroadcast(ip) == ip = <<255, 255, 255, 255>>

IsMulticast(ip) == ip[1] \in 224..239

IsUnspecified(ip) == ip = <<0, 0, 0, 0>>

(* TcpFlags::SYN = 0x02, TcpFlags::ACK = 0x10; flags & bit != 0 *)
IsSyn(flags) == (flags \div 2) % 2 = 1

IsAck(flags) == (flags \div 16) % 2 = 1

(* none, SYN, ACK, SYN+ACK, FIN+ACK, SYN+ECE+CWR *)
FlagBytes == {0, 2, 16, 18, 17, 194}

(* The TCP payloads the loop is fed: one shorter than a TCP header, and     *)
(* 20- and 24-byte ones with data offsets below, at and past their length. *)
LoopPayloads ==
    {[len |-> 19, doff |-> 5, opts |-> <<>>]}
    \cup {[len |-> 20, doff |-> d, opts |-> <<>>] : d \in {0, 5, 6}}
    \cup {[len |-> 24, doff |-> d, opts |-> <<2, 4, 255, 255>>] : d \in {5, 6, 15}}

(* A frame: whether Ipv4Packet::new accepts the Ethernet payload, and the  *)
(* header fields and IPv4 payload the loop reads.  Every frame carries a   *)
(* whole Ethernet header, so EthernetPacket::new (main.rs:71) is Some.     *)
NoFrame ==
    [ipv4 |-> FALSE, src |-> <<0, 0, 0, 0>>, dst |-> <<0, 0, 0, 0>>, proto |-> 0,
     flags |-> 0, payload |-> [len |-> 0, doff |-> 0, opts |-> <<>>]]

Frames ==
    {NoFrame}
    \cup {[ipv4 |-> TRUE, src |-> s, dst |-> d, proto |-> 17, flags |-> 0,
           payload |-> [len |-> 20, doff |-> 5, opts |-> <<>>]] : s \in Addrs, d \in Addrs}
    \cup {[ipv4 |-> TRUE, src |-> s, dst |-> d, proto |-> 6, flags |-> fl,
           payload |-> pl] :
             s \in Addrs, d \in Addrs, fl \in FlagBytes, pl \in LoopPayloads}

(* The bytes of a frame: the Ethernet header, and for an IPv4 frame the    *)
(* 20-byte IPv4 header and its payload; the other frames are 60 bytes.     *)
FrameLen(f) == IF f.ipv4 THEN 14 + 20 + f.payload.len ELSE 60

(* A u32 as four little-endian bytes, and as four big-endian ones. *)
LE32(n) ==
    <<n % 256, (n \div 256) % 256, (n \div 65536) % 256, (n \div 16777216) % 256>>

BE32(n) ==
    <<(n \div 16777216) % 256, (n \div 65536) % 256, (n \div 256) % 256, n % 256>>

(* The per-record header with the two lengths in network byte order. *)
PcapPacketHeader_BigEndian(packet_length, secs, usecs) ==
    LE32(secs) \o LE32(usecs) \o BE32(packet_length) \o BE32(packet_length)

(* pcap_packet_header (main.rs:206-231, network_tap.rs:50-74): seconds,    *)
(* microseconds, captured length and original length.                      *)
PcapPacketHeader(packet_length, secs, usecs) ==
    LE32(secs) \o LE32(usecs) \o LE32(packet_length) \o LE32(packet_length)

(* What SystemTime::now() reads while the model runs. *)
CaptureSecs == 1700000000

CaptureMicros == 250000

(* The classification with the source tested first. *)
Classify_SourceFirst(source_ip, destination_ip) ==
    IF source_ip \in local_ips
    THEN [dir |-> "Outbound", fingerprint_ip |-> destination_ip]
    ELSE IF destination_ip \in local_ips
    THEN [dir |-> "Inbound", fingerprint_ip |-> source_ip]
    ELSE [dir |-> "NotLocal", fingerprint_ip |-> <<>>]

(* main.rs:87-93: (fingerprint_ip, is_incoming), or the `continue`. *)
Classify(source_ip, destination_ip) ==
    IF destination_ip \in local_ips
    THEN [dir |-> "Inbound", fingerprint_ip |-> source_ip]
    ELSE IF source_ip \in local_ips
    THEN [dir |-> "Outbound", fingerprint_ip |-> destination_ip]
    ELSE [dir |-> "NotLocal", fingerprint_ip |-> <<>>]

(* main.rs:111 (fingerprint.rs:86-90, is_syn_packet) *)
IsSynPacket(tcp_flags, is_incoming) ==
    \/ is_incoming /\ IsSyn(tcp_flags) /\ ~IsAck(tcp_flags)
    \/ ~is_incoming /\ IsSyn(tcp_flags) /\ IsAck(tcp_flags)

(* The length test with the bound of the bytes read before the options     *)
(* (flags at 13, window at 14..15) in place of the 20-byte header.         *)
HasTcpHeader_ThroughWindow(pl) == pl.len >= 16

(* main.rs:104 *)
HasTcpHeader(pl) == pl.len >= 20

(* The offsets of the TCP header an iteration has read when it ends with   *)
(* `outcome`: the flags (main.rs:106), then the window and the data offset *)
(* (main.rs:113, 121).                                                     *)
HeaderReads(outcome) ==
    IF outcome = "ineligible" THEN {13}
    ELSE IF outcome \in {"slice_panic", "index_panic", "signature_write_error",
                         "signature_flush_error", "fingerprint"}
    THEN {12, 13, 14, 15}
    ELSE {}

(* What one iteration does with a frame it pulled (main.rs:70-185), with   *)
(* `io` the write that fails: the records packets.pcap gains, whether      *)
(* muonfp.out gains a line, the header bytes read, and how the iteration   *)
(* ends.                                                                   *)
Done(outcome, c, hdr, data, line) ==
    [outcome |-> outcome, dir |-> c.dir, fingerprint_ip |-> c.fingerprint_ip,
     hdr |-> hdr, data |-> data, line |-> line, read |-> HeaderReads(outcome),
     panic |-> outcome \in {"pcap_header_error", "pcap_data_error", "slice_panic",
                            "index_panic", "signature_write_error",
                            "signature_flush_error"}]

Unclassified == [dir |-> "", fingerprint_ip |-> <<>>]

ProcessFrame(f, io) ==
    IF io = "pcap_header" THEN Done("pcap_header_error", Unclassified, FALSE, FALSE, FALSE)
    ELSE IF io = "pcap_data" THEN Done("pcap_data_error", Unclassified, TRUE, FALSE, FALSE)
    ELSE IF ~f.ipv4 THEN Done("not_ipv4", Unclassified, TRUE, TRUE, FALSE)
    ELSE
    LET c == Classify(f.src, f.dst)
    IN
    IF c.dir = "NotLocal" THEN Done("not_local", c, TRUE, TRUE, FALSE)
    ELSE IF \/ IsBroadcast(c.fingerprint_ip)
            \/ IsMulticast(c.fingerprint_ip)
            \/ IsUnspecified(c.fingerprint_ip)
    THEN Done("remote_filtered", c, TRUE, TRUE, FALSE)
    ELSE IF f.proto # 6 THEN Done("not_tcp", c, TRUE, TRUE, FALSE)
    ELSE IF ~HasTcpHeader(f.payload) THEN Done("short", c, TRUE, TRUE, FALSE)
    ELSE IF ~IsSynPacket(f.flags, c.dir = "Inbound")
    THEN Done("ineligible", c, TRUE, TRUE, FALSE)
    ELSE IF ~SliceInRange(f.payload) THEN Done("slice_panic", c, TRUE, TRUE, FALSE)
    ELSE IF ExtractTcpOptions(f.payload).panic
    THEN Done("index_panic", c, TRUE, TRUE, FALSE)
    ELSE IF io = "signature_write"
    THEN Done("signature_write_error", c, TRUE, TRUE, FALSE)
    ELSE IF io = "signature_flush"
    THEN Done("signature_flush_error", c, TRUE, TRUE, FALSE)
    ELSE Done("fingerprint", c, TRUE, TRUE, TRUE)

WriteFaults == {"pcap_header", "pcap_data", "signature_write", "signature_flush"}

NoRx == [kind |-> "none", frame |-> NoFrame]

NoLast == [Done("none", Unclassified, FALSE, FALSE, FALSE) EXCEPT !.panic = FALSE]

(* The state when the loop is entered (main.rs:35-67). *)
InitLoop ==
    /\ local_ips \in LocalIpSets
    /\ orch = "Running"
    /\ cancel = "none"
    /\ rx = NoRx
    /\ pulled = 0
    /\ pcap_file = <<>>
    /\ signatures_file = 0
    /\ last = NoLast

(* The environment: a frame reaches the channel the loop is blocked on. *)
FrameArrives ==
    /\ orch = "Running" /\ rx.kind = "none" /\ pulled < MaxFrames
    /\ \E f \in Frames : rx' = [kind |-> "frame", frame |-> f]
    /\ UNCHANGED <<local_ips, orch, cancel, pulled, pcap_file, signatures_file, last,
                   wvars, dvars, fvars>>

(* The environment: the channel fails the read the loop is blocked on. *)
ReadFails ==
    /\ orch = "Running" /\ rx.kind = "none" /\ pulled < MaxFrames
    /\ rx' = [kind |-> "error", frame |-> NoFrame]
    /\ UNCHANGED <<local_ips, orch, cancel, pulled, pcap_file, signatures_file, last,
                   wvars, dvars, fvars>>

(* The environment asks the process to stop.  main has no handler and no   *)
(* flag: nothing in the loop reads the request.                            *)
RequestCancel ==
    /\ orch = "Running" /\ cancel = "none"
    /\ cancel' = "requested"
    /\ UNCHANGED <<local_ips, orch, rx, pulled, pcap_file, signatures_file, last,
                   wvars, dvars, fvars>>

AfterIteration == IF cancel = "none" THEN "none" ELSE "passed"

(* One iteration on Ok(packet) (main.rs:69-185). *)
IterationOk ==
    /\ orch = "Running" /\ rx.kind = "frame"
    /\ \E io \in WriteFaults \cup {"none"} :
          LET r == ProcessFrame(rx.frame, io)
          IN /\ io # "none" => r.outcome = io \o "_error"
             /\ last' = r
             /\ pcap_file' = IF r.hdr
                             THEN Append(pcap_file,
                                         [frame |-> pulled + 1,
                                          header |-> PcapPacketHeader(FrameLen(rx.frame),
                                                                      CaptureSecs,
                                                                      CaptureMicros),
                                          data |-> IF r.data THEN FrameLen(rx.frame)
                                                   ELSE 0])
                             ELSE pcap_file
             /\ signatures_file' = signatures_file + (IF r.line THEN 1 ELSE 0)
             /\ orch' = IF r.panic THEN "Panicked" ELSE "Running"
             /\ cancel' = IF r.panic THEN cancel ELSE AfterIteration
    /\ rx' = NoRx
    /\ pulled' = pulled + 1
    /\ UNCHANGED <<local_ips, wvars, dvars, fvars>>

(* The Err(e) arm ending the process, as an expect on rx.next() would. *)
IterationErr_Fatal ==
    /\ orch = "Running" /\ rx.kind = "error"
    /\ last' = [NoLast EXCEPT !.outcome = "read_error"]
    /\ rx' = NoRx
    /\ pulled' = pulled + 1
    /\ orch' = "Panicked"
    /\ UNCHANGED <<local_ips, cancel, pcap_file, signatures_file, wvars, dvars, fvars>>

(* One iteration on Err(e) (main.rs:186-188): the error is printed. *)
IterationErr ==
    /\ orch = "Running" /\ rx.kind = "error"
    /\ last' = [NoLast EXCEPT !.outcome = "read_error"]
    /\ rx' = NoRx
    /\ pulled' = pulled + 1
    /\ cancel' = AfterIteration
    /\ UNCHANGED <<local_ips, orch, pcap_file, signatures_file, wvars, dvars, fvars>>

NextLoop == FrameArrives \/ ReadFails \/ RequestCancel \/ IterationOk \/ IterationErr

-----------------------------------------------------------------------------
(* The fingerprint composer and the block action. *)

(* Ipv4Addr's Display: the four octets in decimal, joined by '.'. *)
IpToString(ip) ==
    ToDecimal(ip[1]) \o <<".">> \o ToDecimal(ip[2]) \o <<".">>
        \o ToDecimal(ip[3]) \o <<".">> \o ToDecimal(ip[4])

(* Fingerprint::new with the signature led by the remote address. *)
FingerprintNew_WithIp(hostname, ip, window_size, options, mss, window_scale, utc_now) ==
    [hostname |-> hostname, timestamp |-> utc_now, ip_address |-> ip,
     muonfp_fingerprint |->
        IpToString(ip) \o <<":">> \o ToDecimal(window_size) \o <<":">> \o options
            \o <<":">> \o mss \o <<":">> \o window_scale]

(* Fingerprint::new (fingerprint.rs:15-29); utc_now is what Utc::now()     *)
(* returns.                                                                *)
FingerprintNew(hostname, ip, window_size, options, mss, window_scale, utc_now) ==
    [hostname |-> hostname, timestamp |-> utc_now, ip_address |-> ip,
     muonfp_fingerprint |->
        ToDecimal(window_size) \o <<":">> \o options \o <<":">> \o mss
            \o <<":">> \o window_scale]

(* The line of main with the window scale written before the MSS. *)
SignatureLine_ScaleBeforeMss(fingerprint_ip, window_size, options_str, mss, window_scale) ==
    IpToString(fingerprint_ip) \o <<":">> \o ToDecimal(window_size) \o <<":">>
        \o options_str \o <<":">> \o window_scale \o <<":">> \o mss \o <<"\n">>

(* The line main writes to muonfp.out (main.rs:167-174). *)
SignatureLine(fingerprint_ip, window_size, options_str, mss, window_scale) ==
    IpToString(fingerprint_ip) \o <<":">> \o ToDecimal(window_size) \o <<":">>
        \o options_str \o <<":">> \o mss \o <<":">> \o window_scale \o <<"\n">>

(* The handshakes fingerprints are composed from: the host identity, the   *)
(* capture time, the remote address, the advertised window (main.rs:113)   *)
(* and the options region.                                                 *)
Captures == {[hostname |-> "alpha", utc_now |-> 0], [hostname |-> "beta", utc_now |-> 1]}

RemoteIps == {Remote1, <<192, 168, 1, 20>>}

WindowSizes == {0, 65535}

ComposePayloads ==
    {[len |-> 20, doff |-> 5, opts |-> <<>>],
     [len |-> 24, doff |-> 6, opts |-> <<2, 4, 5, 180>>],
     [len |-> 28, doff |-> 7, opts |-> <<2, 4, 5, 180, 3, 3, 7, 0>>]}

NoFingerprint == <<>>

(* What block_ip_now does (ipblocker.rs:16-39) when the nft command ends   *)
(* as `nft`: "success", "failure" (it ran and exited unsuccessfully) or    *)
(* "spawn_error" (Command::output returned Err, and expect panics).        *)
NftOutcomes == {"success", "failure", "spawn_error"}

BlockIpNow(ip_address, nft) ==
    IF nft = "spawn_error" THEN [panic |-> TRUE, success |-> FALSE, log |-> <<>>]
    ELSE IF nft = "success"
    THEN [panic |-> FALSE, success |-> TRUE, log |-> <<"info", "debug">>]
    ELSE [panic |-> FALSE, success |-> FALSE, log |-> <<"error", "error">>]

(* block_ip (ipblocker.rs:7-14): what is logged and whether it returns. *)
BlockIp(ip_address, nft) ==
    LET r == BlockIpNow(ip_address, nft)
    IN [ip_address |-> ip_address, nft |-> nft,
        log |-> <<"debug">> \o r.log
                \o (IF r.panic THEN <<>>
                    ELSE IF r.success THEN <<"info">> ELSE <<"error">>),
        returned |-> ~r.panic]

NoBlock == [ip_address |-> <<>>, nft |-> "", log |-> <<>>, returned |-> TRUE]

InitFingerprint ==
    /\ prev = NoFingerprint
    /\ cur = NoFingerprint
    /\ block = NoBlock

(* A qualifying handshake is decoded and its fingerprint composed, both as *)
(* Fingerprint::new builds it and as main writes it.                       *)
Compose ==
    /\ block.returned
    /\ \E c \in Captures, ip \in RemoteIps,
          window_size \in WindowSizes, pl \in ComposePayloads :
          LET d == ExtractTcpOptions(pl)
          IN cur' = [fields |-> <<window_size, d.options_str, d.mss, d.window_scale>>,
                     fp |-> FingerprintNew(c.hostname, ip, window_size, d.options_str,
                                           d.mss, d.window_scale, c.utc_now),
                     line |-> SignatureLine(ip, window_size, d.options_str, d.mss,
                                            d.window_scale)]
    /\ prev' = cur
    /\ UNCHANGED <<block, wvars, dvars, lvars>>

(* The block action is called with the remote address of the fingerprint   *)
(* composed last; the environment decides how the nft command ends.        *)
Block ==
    /\ block.returned /\ cur # NoFingerprint
    /\ \E nft \in NftOutcomes : block' = BlockIp(IpToString(cur.fp.ip_address), nft)
    /\ UNCHANGED <<prev, cur, wvars, dvars, lvars>>

NextFingerprint == Compose \/ Block

-----------------------------------------------------------------------------
(* The specifications.  Each runs one part and leaves the others idle. *)
IdleWriter ==
    /\ max_size = 0 /\ init_len = 0 /\ current_file = None /\ current_size = 0
    /\ file_count = 0 /\ current_path = None /\ disk = <<>> /\ now = 0
    /\ created = <<>> /\ nwrites = 0 /\ op = NoOp /\ faults = 0

IdleDecode == tcp_payload = NoFrame.payload /\ decoded = NotRun

IdleLoop ==
    /\ local_ips = {} /\ orch = "Idle" /\ cancel = "none" /\ rx = NoRx /\ pulled = 0
    /\ pcap_file = <<>> /\ signatures_file = 0 /\ last = NoLast

IdleFingerprint == prev = NoFingerprint /\ cur = NoFingerprint /\ block = NoBlock

InitW == InitWriter /\ IdleDecode /\ IdleLoop /\ IdleFingerprint

InitD == InitDecode /\ IdleWriter /\ IdleLoop /\ IdleFingerprint

InitL == InitLoop /\ IdleWriter /\ IdleDecode /\ IdleFingerprint

InitF == InitFingerprint /\ IdleWriter /\ IdleDecode /\ IdleLoop

SpecWriter == InitW /\ [][NextWriter]_vars

NextDecode == Decode

SpecDecode == InitD /\ [][NextDecode]_vars

SpecLoop == InitL /\ [][NextLoop]_vars

SpecFingerprint == InitF /\ [][NextFingerprint]_vars

-----------------------------------------------------------------------------
(* Claims about the options decoder (SpecDecode). *)

(* C2: for every payload of at least 20 bytes and every data-offset nibble *)
(* the decoder completes without panicking and reads only payload offsets  *)
(* in [20, headerLength).                                                  *)
C2_DecoderNeverPanics ==
    (decoded # NotRun /\ tcp_payload.len >= 20) =>
        /\ ~decoded.panic
        /\ \A k \in decoded.reads :
              20 <= 20 + k /\ 20 + k < TcpHeaderLength(tcp_payload)

(* The wire format of a well-formed options region, read from position i   *)
(* (1-based): NOP is one byte, an MSS option four, a window-scale option   *)
(* three, and any other kind carries in its second byte a length of at     *)
(* least 2 that fits in the region.                                        *)
WireLen(slice, i) ==
    IF slice[i] = 1 THEN 1
    ELSE IF i + 1 <= Len(slice) THEN slice[i + 1] ELSE 0

RECURSIVE WellFormedFrom(_, _)
WellFormedFrom(slice, i) ==
    IF i > Len(slice) THEN TRUE
    ELSE LET kind == slice[i]
             l == WireLen(slice, i)
         IN /\ kind # 0
            /\ kind = 2 => l = 4
            /\ kind = 3 => l = 3
            /\ kind \notin {1, 2, 3} => l >= 2
            /\ i + l - 1 <= Len(slice)
            /\ WellFormedFrom(slice, i + l)

(* The options of a well-formed region in wire order: kind and position. *)
RECURSIVE WireOptions(_, _)
WireOptions(slice, i) ==
    IF i > Len(slice) THEN <<>>
    ELSE <<[kind |-> slice[i], at |-> i]>> \o WireOptions(slice, i + WireLen(slice, i))

RECURSIVE JoinKinds(_)
JoinKinds(options) ==
    IF options = <<>> THEN <<>>
    ELSE IF Len(options) = 1 THEN ToDecimal(options[1].kind)
    ELSE ToDecimal(options[1].kind) \o <<"-">> \o JoinKinds(Tail(options))

(* The last option of the kind, or none. *)
LastOfKind(options, kind) ==
    LET is == {k \in 1..Len(options) : options[k].kind = kind}
    IN IF is = {} THEN 0 ELSE options[CHOOSE k \in is : \A j \in is : j <= k].at

(* C12: for a well-formed options region the kind sequence lists every     *)
(* option's kind in wire order joined by '-' with no trailing '-', MSS is  *)
(* the decimal big-endian 16-bit value of the MSS option and window scale  *)
(* the decimal value of the window-scale option (each empty when there is  *)
(* no such option); scenario A gives 2-1-3-1-1-8, 1460 and 7.              *)
C12_WellFormedDecoding ==
    /\ (decoded # NotRun /\ SliceInRange(tcp_payload)
          /\ WellFormedFrom(OptionsSlice(tcp_payload), 1))
       => LET slice == OptionsSlice(tcp_payload)
              options == WireOptions(slice, 1)
              m == LastOfKind(options, 2)
              w == LastOfKind(options, 3)
          IN /\ ~decoded.panic
             /\ decoded.options_str = JoinKinds(options)
             /\ decoded.mss = IF m = 0 THEN <<>>
                              ELSE ToDecimal(slice[m + 2] * 256 + slice[m + 3])
             /\ decoded.window_scale = IF w = 0 THEN <<>> ELSE ToDecimal(slice[w + 2])
    /\ (decoded # NotRun /\ tcp_payload = ScenarioA)
       => /\ decoded.options_str = <<"2", "-", "1", "-", "3", "-", "1", "-", "1", "-", "8">>
          /\ decoded.mss = <<"1", "4", "6", "0">>
          /\ decoded.window_scale = <<"7">>

(* C12's case: scenario A has been decoded. *)
C12_Witness ==
    /\ decoded # NotRun /\ tcp_payload = ScenarioA
    /\ WellFormedFrom(OptionsSlice(tcp_payload), 1)
    /\ decoded.mss = <<"1", "4", "6", "0">>

(* The states of the walk over `slice`, from `st` on: before each          *)
(* iteration and after the last one.                                       *)
RECURSIVE WalkTrace(_, _)
WalkTrace(slice, st) ==
    IF st.panic \/ ~(st.i < Len(slice)) \/ st.iters > Len(slice) THEN <<st>>
    ELSE LET n == WalkStep(slice, st)
         IN IF n.go THEN <<st>> \o WalkTrace(slice, n.st) ELSE <<st, n.st>>

(* The iterations of the decoded payload's walk that meet an option of     *)
(* `kind` with fewer than `size` bytes left from its position.             *)
TruncatedAt(kind, size) ==
    LET slice == OptionsSlice(tcp_payload)
        trace == WalkTrace(slice, WalkStart)
    IN {k \in 1..(Len(trace) - 1) :
           /\ trace[k].i < Len(slice)
           /\ slice[trace[k].i + 1] = kind
           /\ Len(slice) - trace[k].i < size}

(* What the decoder does at such an iteration, whatever the field holds:   *)
(* the kind token is appended, the position advances by `size`, nothing    *)
(* panics and the walk ends there.                                         *)
TruncatedStep(kind, size) ==
    LET slice == OptionsSlice(tcp_payload)
        trace == WalkTrace(slice, WalkStart)
    IN \A k \in TruncatedAt(kind, size) :
          /\ trace[k + 1].options_str = trace[k].options_str \o ToDecimal(kind) \o <<"-">>
          /\ trace[k + 1].i = trace[k].i + size
          /\ ~trace[k + 1].panic
          /\ k + 1 = Len(trace)
          /\ ~decoded.panic

Decoded == decoded # NotRun /\ SliceInRange(tcp_payload)

(* C18: a kind-2 option with fewer than 4 bytes left, or a kind-3 option   *)
(* with fewer than 3, still gets its kind token, advances the walk by 4 or *)
(* 3 so that it ends, does not abort the decode, and the MSS, respectively *)
(* the window scale, of the result is empty.                               *)
C18_TruncatedFieldEmpty ==
    Decoded =>
        /\ TruncatedStep(2, 4) /\ TruncatedStep(3, 3)
        /\ TruncatedAt(2, 4) # {} => decoded.mss = <<>>
        /\ TruncatedAt(3, 3) # {} => decoded.window_scale = <<>>

(* C18 amended: a kind-2 option with fewer than 4 bytes left, or a kind-3  *)
(* option with fewer than 3, still gets its kind token, advances the walk  *)
(* by 4 or 3 so that it ends, does not abort the decode, and leaves the    *)
(* MSS, respectively the window scale, as it was: empty unless an earlier  *)
(* complete option of that kind had set it.                                *)
C18_TruncatedFieldUnchanged ==
    Decoded =>
        LET trace == WalkTrace(OptionsSlice(tcp_payload), WalkStart)
        IN /\ TruncatedStep(2, 4) /\ TruncatedStep(3, 3)
           /\ \A k \in TruncatedAt(2, 4) :
                 trace[k + 1].mss = trace[k].mss /\ decoded.mss = trace[k].mss
           /\ \A k \in TruncatedAt(3, 3) :
                 /\ trace[k + 1].window_scale = trace[k].window_scale
                 /\ decoded.window_scale = trace[k].window_scale

(* C18's case: a complete window-scale option followed by a kind-3 byte    *)
(* at the end of the region.                                               *)
C18_Witness ==
    /\ Decoded /\ OptionsSlice(tcp_payload) = <<3, 3, 4, 3>>
    /\ TruncatedAt(3, 3) # {}
    /\ decoded.options_str = <<"3", "-", "3">>
    /\ decoded.window_scale = <<"4">>

(* C20: the walk terminates: every iteration either stops it or strictly   *)
(* increases the position, so it makes at most as many iterations, and     *)
(* emits at most as many kind tokens, as the region has bytes.             *)
C20_WalkTerminates ==
    Decoded =>
        LET slice == OptionsSlice(tcp_payload)
            trace == WalkTrace(slice, WalkStart)
        IN /\ decoded.iters <= Len(slice)
           /\ decoded.tokens <= Len(slice)
           /\ \A k \in 1..(Len(trace) - 1) :
                 trace[k + 1].i > trace[k].i \/ k + 1 = Len(trace)
           /\ Len(trace) - 1 <= Len(slice)

(* C20's case: a region whose first option declares length 0. *)
C20_Witness ==
    /\ Decoded /\ Len(OptionsSlice(tcp_payload)) = 4
    /\ OptionsSlice(tcp_payload)[1] = 4 /\ OptionsSlice(tcp_payload)[2] = 0
    /\ decoded.iters = 1 /\ decoded.options_str = <<"4">>

-----------------------------------------------------------------------------
(* Claims about the capture loop (SpecLoop). *)

(* The step is an iteration that pulled a frame. *)
PulledFrame == rx.kind = "frame" /\ pulled' = pulled + 1

WriteErrors ==
    {"pcap_header_error", "pcap_data_error", "signature_write_error",
     "signature_flush_error"}

(* The spec's rule (4.1, 4.2), stated on the frame and the local set. *)
Involved(f) == f.dst \in local_ips \/ f.src \in local_ips

Remote(f) == IF f.dst \in local_ips THEN f.src ELSE f.dst

Eligible(f) ==
    \/ f.dst \in local_ips /\ IsSyn(f.flags) /\ ~IsAck(f.flags)
    \/ f.dst \notin local_ips /\ f.src \in local_ips /\ IsSyn(f.flags) /\ IsAck(f.flags)

(* C3: every processed TCP/IPv4 frame with a payload of at least 20 bytes  *)
(* that involves a local address (and whose remote address passes the      *)
(* filter of 4.1, and whose writes succeed) gets a fingerprint line iff it *)
(* is an inbound SYN without ACK or an outbound SYN with ACK.              *)
C3_FingerprintIffEligible ==
    [][ ( /\ PulledFrame
          /\ rx.frame.ipv4 /\ rx.frame.proto = 6 /\ rx.frame.payload.len >= 20
          /\ Involved(rx.frame)
          /\ ~IsBroadcast(Remote(rx.frame)) /\ ~IsMulticast(Remote(rx.frame))
          /\ ~IsUnspecified(Remote(rx.frame))
          /\ last'.outcome \notin WriteErrors )
        => ((signatures_file' = signatures_file + 1) <=> Eligible(rx.frame))
      ]_vars

(* C4: for every IPv4 frame whose record was written, the direction is     *)
(* Inbound with remote = source if the destination is local; otherwise     *)
(* Outbound with remote = destination if the source is local; otherwise    *)
(* the frame is dropped without a fingerprint.                             *)
C4_DirectionClassification ==
    [][ (PulledFrame /\ rx.frame.ipv4
           /\ last'.outcome \notin {"pcap_header_error", "pcap_data_error"})
        => LET f == rx.frame
           IN /\ f.dst \in local_ips
                   => last'.dir = "Inbound" /\ last'.fingerprint_ip = f.src
              /\ (f.dst \notin local_ips /\ f.src \in local_ips)
                   => last'.dir = "Outbound" /\ last'.fingerprint_ip = f.dst
              /\ (f.dst \notin local_ips /\ f.src \notin local_ips)
                   => /\ last'.outcome = "not_local"
                      /\ signatures_file' = signatures_file
      ]_vars

(* C4's case: a frame whose source and destination are both local was      *)
(* classified, as Inbound.                                                 *)
C4_Witness ==
    /\ last.dir = "Inbound" /\ last.fingerprint_ip \in local_ips
    /\ last.outcome = "fingerprint"

(* C5: once a stop request has been made and an iteration has ended after  *)
(* it, the loop has flushed and closed its outputs and is Stopped.         *)
C5_StopsAfterCancel ==
    cancel = "passed" => orch = "Stopped"

(* C6: a read error leaves the loop running, back at the pull, with        *)
(* nothing written; a write or flush error on either output ends the loop, *)
(* after which no frame is pulled and nothing is written.                  *)
C6_LoopFailurePolicy ==
    [][ /\ (rx.kind = "error" /\ pulled' = pulled + 1)
            => /\ orch' = "Running" /\ rx' = NoRx
               /\ pcap_file' = pcap_file /\ signatures_file' = signatures_file
        /\ (PulledFrame /\ last'.outcome \in WriteErrors) => orch' = "Panicked"
        /\ orch = "Panicked" => UNCHANGED lvars
      ]_vars

(* C6's case: the first pull failed, the loop went on to pull a frame, and *)
(* writing that frame's fingerprint failed, which ended the loop.          *)
C6_Witness ==
    /\ pulled = 2 /\ Len(pcap_file) = 1
    /\ last.outcome \in {"signature_write_error", "signature_flush_error"}
    /\ orch = "Panicked"

-----------------------------------------------------------------------------
(* Claims about the fingerprint composer and the block action              *)
(* (SpecFingerprint).                                                      *)

(* str::split: the fields between the separators, empty ones included. *)
RECURSIVE Split(_, _)
Split(str, sep) ==
    IF \A i \in 1..Len(str) : str[i] # sep THEN <<str>>
    ELSE LET k == CHOOSE i \in 1..Len(str) :
                     str[i] = sep /\ \A j \in 1..(i - 1) : str[j] # sep
         IN <<SubSeq(str, 1, k - 1)>> \o Split(SubSeq(str, k + 1, Len(str)), sep)

RECURSIVE Join(_, _)
Join(fields, sep) ==
    IF Len(fields) = 1 THEN fields[1]
    ELSE fields[1] \o <<sep>> \o Join(Tail(fields), sep)

(* Reading a line of the fingerprint log back: the line without its        *)
(* terminator is the remote address, ':' and the canonical signature.      *)
SignatureOfLine(line) ==
    LET body == IF line # <<>> /\ line[Len(line)] = "\n"
                THEN SubSeq(line, 1, Len(line) - 1) ELSE line
        fields == Split(body, ":")
    IN IF Len(fields) < 2 THEN <<>> ELSE Join(Tail(fields), ":")

(* The number a decimal string denotes. *)
RECURSIVE FromDecimal(_)
FromDecimal(str) ==
    IF str = <<>> THEN 0
    ELSE 10 * FromDecimal(SubSeq(str, 1, Len(str) - 1))
         + ((CHOOSE d \in 1..10 : DigitChars[d] = str[Len(str)]) - 1)

IsSubstring(part, str) ==
    \E i \in 1..(Len(str) - Len(part) + 1) : SubSeq(str, i, i + Len(part) - 1) = part

(* C11: two fingerprints built from the same window size, options          *)
(* sequence, MSS and window scale carry the same canonical signature,      *)
(* whatever their remote address, host identity and capture time; the      *)
(* signature has four fields and does not contain the remote address.      *)
C11_SignatureIndependence ==
    /\ (prev # NoFingerprint /\ cur # NoFingerprint /\ prev.fields = cur.fields)
          => /\ prev.fp.muonfp_fingerprint = cur.fp.muonfp_fingerprint
             /\ SignatureOfLine(prev.line) = SignatureOfLine(cur.line)
    /\ cur # NoFingerprint
          => /\ Len(Split(cur.fp.muonfp_fingerprint, ":")) = 4
             /\ ~IsSubstring(IpToString(cur.fp.ip_address), cur.fp.muonfp_fingerprint)

(* C11's case: the same handshake shape captured from two remote           *)
(* addresses, on two hosts, at two times.                                  *)
C11_Witness ==
    /\ prev # NoFingerprint /\ cur # NoFingerprint /\ prev.fields = cur.fields
    /\ prev.fp.ip_address # cur.fp.ip_address
    /\ prev.fp.hostname # cur.fp.hostname
    /\ prev.fp.timestamp # cur.fp.timestamp

(* C14: when the block action fails (nft exits unsuccessfully or cannot be *)
(* executed), the failure is reported and block_ip returns normally.       *)
C14_BlockFailureNonFatal ==
    block.nft \in {"failure", "spawn_error"}
        => block.returned /\ block.log[Len(block.log)] = "error"

(* C15: the line written to the fingerprint log reads back as the          *)
(* canonical signature windowSize:optionsSequence:mss:windowScale, and     *)
(* that signature splits on ':' into the four fields it was built from.    *)
C15_FingerprintRoundTrip ==
    cur # NoFingerprint =>
        /\ SignatureOfLine(cur.line) = cur.fp.muonfp_fingerprint
        /\ LET parts == Split(cur.fp.muonfp_fingerprint, ":")
           IN /\ Len(parts) = 4
              /\ FromDecimal(parts[1]) = cur.fields[1]
              /\ parts[2] = cur.fields[2]
              /\ parts[3] = cur.fields[3]
              /\ parts[4] = cur.fields[4]

(* C15's cases: a fingerprint whose options sequence, MSS and window scale *)
(* are all empty, after one with the largest window and an MSS.            *)
C15_Witness ==
    /\ prev # NoFingerprint /\ cur # NoFingerprint
    /\ prev.fields[1] = 65535 /\ prev.fields[3] # <<>> /\ prev.fields[4] = <<>>
    /\ cur.fields[2] = <<>> /\ cur.fields[3] = <<>> /\ cur.fields[4] = <<>>

(* C13: a TCP/IPv4 frame whose payload is shorter than 20 bytes, once its  *)
(* record is in the raw trace, gets no fingerprint line and raises no      *)
(* error, no byte of its TCP header is read, and the loop goes on to the   *)
(* next pull, whatever its flags and direction.                            *)
C13_ShortSegmentDrop ==
    [][ (PulledFrame /\ rx.frame.ipv4 /\ rx.frame.proto = 6
           /\ rx.frame.payload.len < 20
           /\ last'.outcome \notin {"pcap_header_error", "pcap_data_error"})
        => /\ signatures_file' = signatures_file
           /\ ~last'.panic /\ orch' = "Running"
           /\ last'.read = {}
           /\ rx' = NoRx
      ]_vars

(* C13's case: a short segment to a local address was dropped and the next *)
(* frame has arrived at the running loop.                                  *)
C13_Witness ==
    /\ last.outcome = "short" /\ last.dir = "Inbound"
    /\ orch = "Running" /\ pulled = 1 /\ rx.kind = "frame"

(* Four little-endian bytes read back as a number. *)
FromLE32(b) == b[1] + 256 * b[2] + 65536 * b[3] + 16777216 * b[4]

(* C17: every frame pulled gets, before it is classified and whatever is   *)
(* then done with it, exactly one record appended to the raw trace: a      *)
(* 16-byte header whose captured and original lengths both equal the      *)
(* frame length, followed by that many frame bytes; the records are in     *)
(* pull order and no header is followed by anything but its data.  (A      *)
(* failing write of the record ends the loop, see C6.)                     *)
C17_RawTraceComplete ==
    /\ [][ (PulledFrame
              /\ last'.outcome \notin {"pcap_header_error", "pcap_data_error"})
           => /\ Len(pcap_file') = Len(pcap_file) + 1
              /\ SubSeq(pcap_file', 1, Len(pcap_file)) = pcap_file
              /\ LET rec == pcap_file'[Len(pcap_file')]
                 IN /\ rec.frame = pulled'
                    /\ Len(rec.header) = 16
                    /\ FromLE32(SubSeq(rec.header, 9, 12)) = FrameLen(rx.frame)
                    /\ FromLE32(SubSeq(rec.header, 13, 16)) = FrameLen(rx.frame)
                    /\ rec.data = FrameLen(rx.frame)
         ]_vars
    /\ [][ (PulledFrame /\ last'.outcome \in {"pcap_header_error", "pcap_data_error"})
           => last'.dir = "" /\ orch' = "Panicked" ]_vars
    /\ [](\A i, j \in 1..Len(pcap_file) :
             /\ i < j => pcap_file[i].frame < pcap_file[j].frame
             /\ i < Len(pcap_file) => pcap_file[i].data = FromLE32(SubSeq(pcap_file[i].header, 9, 12)))

(* C17's case: two frames were pulled, the first not IPv4 and the second   *)
(* dropped as not local, and both are in the raw trace.                    *)
C17_Witness ==
    /\ Len(pcap_file) = 2 /\ pcap_file[1].data = 60 /\ pcap_file[2].data = 54
    /\ last.outcome = "not_local"

====
